---- MODULE Spec2Model ----
(***************************************************************************)
(* Model of hospitals.py: class Space (houses and hospitals on a grid),    *)
(* its cost function, neighbour generator, hill-climbing optimizer and     *)
(* random-restart driver.                                                  *)
(*                                                                         *)
(* A cell is a pair <<row, col>>.  A Python value is modelled as a record  *)
(* [kind, val]: kind "value" carries val, kind "None" is Python's None,    *)
(* and any other kind is the name of the exception that was raised.        *)
(***************************************************************************)
EXTENDS Integers, Sequences, FiniteSets, TLC

\* ---------------------------------------------------------------- bounds
\* height * width of the grids explored
MaxCells == 5
\* num_hospitals explored: 1..MaxHospitals
MaxHospitals == 2
\* number of add_house calls explored
MaxHouses == 2
\* iteration caps explored for hill_climb(maximum=m): 0..MaxCap, and None
MaxCap == 1
\* restart counts explored for random_restart(maximum=n): 0..MaxRestarts
MaxRestarts == 2

VARIABLES
    height,          \* self.height
    width,           \* self.width
    num_hospitals,   \* self.num_hospitals
    houses,          \* self.houses
    hospitals,       \* self.hospitals
    pc,              \* control position: "setup", "loop" (line 40), "for" (line 73),
                     \* "body" (line 75), "call" (a method about to run), "done"
    driver,          \* outermost call in progress or finished
    maximum,         \* hill_climb's maximum argument (a Python value)
    count,           \* hill_climb's local count
    num_restarts,    \* random_restart's maximum argument
    i,               \* random_restart's loop variable: runs completed
    best_hospitals,  \* random_restart's local best_hospitals (a Python value)
    best_cost,       \* random_restart's local best_cost (a Python value)
    pool,            \* the population handed to random.sample at line 34
    costs,           \* the values of random_restart's local cost, run by run
    op,              \* the method whose call produced ret
    arg,             \* the argument of that call
    ret              \* the outcome of that call (a Python value)

vars == <<height, width, num_hospitals, houses, hospitals, pc, driver,
          maximum, count, num_restarts, i, best_hospitals, best_cost,
          pool, costs, op, arg, ret>>

\* --------------------------------------------------------- Python values
PyNone == [kind |-> "None", val |-> {}]

PyVal(v) == [kind |-> "value", val |-> v]

Raise(e) == [kind |-> e, val |-> {}]

\* ------------------------------------------------------------ grid state
\* range(self.height) x range(self.width)
GridCells == (0 .. height - 1) \X (0 .. width - 1)

\* the coordinates add_house and get_neighbors are called with: every cell of
\* the grid, one cell above it and one cell to the right of it
HouseCells == GridCells \cup {<<-1, 0>>, <<0, width>>}

\* Space.available_spaces
available_spaces == (GridCells \ houses) \ hospitals

abs(x) == IF x < 0 THEN -x ELSE x

\* min replaced by max: the farthest hospital instead of the nearest
min_as_max(S) == CHOOSE m \in S : \A x \in S : m >= x

\* Python's min over a non-empty collection of integers
min(S) == CHOOSE m \in S : \A x \in S : m <= x

\* the distance with the column term dropped
Distances_rows_only(h, P) == { abs(h[1] - p[1]) : p \in P }

\* the generator inside get_cost: distance from house h to each hospital
Distances(h, P) == { abs(h[1] - p[1]) + abs(h[2] - p[2]) : p \in P }

RECURSIVE SumNearest(_, _)
\* sum(min(...) for h in hs): defined when P is non-empty or hs is empty
SumNearest(hs, P) ==
    IF hs = {} THEN 0
    ELSE LET h == CHOOSE x \in hs : TRUE
         IN  min(Distances(h, P)) + SumNearest(hs \ {h}, P)

\* Space.get_cost on a placement for which min() does not raise
get_cost(P) == SumNearest(houses, P)

\* Space.get_cost as a call: min() of an empty sequence raises ValueError
get_cost_call(P) ==
    IF P = {} /\ houses # {} THEN Raise("ValueError") ELSE PyVal(get_cost(P))

\* the filter without the test against self.houses
ValidNeighbor_no_house_test(cell) ==
    /\ 0 <= cell[1] /\ cell[1] < height
    /\ 0 <= cell[2] /\ cell[2] < width
    /\ cell \notin hospitals

\* the filter with the upper bounds off by one
ValidNeighbor_off_by_one(cell) ==
    /\ 0 <= cell[1] /\ cell[1] <= height
    /\ 0 <= cell[2] /\ cell[2] <= width
    /\ cell \notin houses
    /\ cell \notin hospitals

\* the in-bounds, not-a-house, not-a-hospital filter of get_neighbors
ValidNeighbor(cell) ==
    /\ 0 <= cell[1] /\ cell[1] < height
    /\ 0 <= cell[2] /\ cell[2] < width
    /\ cell \notin houses
    /\ cell \notin hospitals

\* the candidate list without its last entry, the cell to the right
get_neighbors_no_right(row, col) ==
    SelectSeq(<< <<row - 1, col>>, <<row + 1, col>>, <<row, col - 1>> >>,
              ValidNeighbor)

\* the candidate list with the cell two steps to the right in place of the
\* cell to the right
get_neighbors_two_steps(row, col) ==
    SelectSeq(<< <<row - 1, col>>, <<row + 1, col>>,
                 <<row, col - 1>>, <<row, col + 2>> >>, ValidNeighbor)

\* the candidate list with a diagonal cell in place of the cell to the right
get_neighbors_diagonal(row, col) ==
    SelectSeq(<< <<row - 1, col>>, <<row + 1, col>>,
                 <<row, col - 1>>, <<row + 1, col + 1>> >>, ValidNeighbor)

\* Space.get_neighbors: the filtered candidate list, in the code's order
get_neighbors(row, col) ==
    SelectSeq(<< <<row - 1, col>>, <<row + 1, col>>,
                 <<row, col - 1>>, <<row, col + 1>> >>, ValidNeighbor)

\* ---------------------------------------------------------- hill_climb
\* some iteration order of a set, as Python's "for x in a_set" produces one
RECURSIVE SetToSeq(_)
SetToSeq(S) ==
    IF S = {} THEN <<>>
    ELSE LET x == CHOOSE y \in S : TRUE
         IN  <<x>> \o SetToSeq(S \ {x})

\* lines 47-49: copy the placement, remove the hospital, add the replacement
Replace(P, hospital, replacement) == (P \ {hospital}) \cup {replacement}

RECURSIVE TrialsOf(_, _, _)
\* the neighbor placements of one hospital, in get_neighbors order
TrialsOf(hospital, ns, k) ==
    IF k > Len(ns) THEN <<>>
    ELSE <<Replace(hospitals, hospital, ns[k])>> \o TrialsOf(hospital, ns, k + 1)

RECURSIVE TrialsFrom(_, _)
\* lines 45-49: every neighbor placement, in the order the loops build them
TrialsFrom(hs, k) ==
    IF k > Len(hs) THEN <<>>
    ELSE TrialsOf(hs[k], get_neighbors(hs[k][1], hs[k][2]), 1)
             \o TrialsFrom(hs, k + 1)

Trials == TrialsFrom(SetToSeq(hospitals), 1)

RECURSIVE Scan_first_only(_, _, _, _)
\* the scan without the elif branch: a tie with the minimum is not collected
Scan_first_only(tr, k, best_neighbor_cost, best_neighbors) ==
    IF k > Len(tr)
    THEN [cost |-> best_neighbor_cost, neighbors |-> best_neighbors]
    ELSE LET cost == get_cost(tr[k])
         IN  IF (IF best_neighbor_cost.kind = "None" THEN TRUE
                 ELSE cost < best_neighbor_cost.val)
             THEN Scan_first_only(tr, k + 1, PyVal(cost), <<tr[k]>>)
             ELSE Scan_first_only(tr, k + 1, best_neighbor_cost, best_neighbors)

RECURSIVE Scan(_, _, _, _)
\* lines 50-56: the running minimum and the list of placements attaining it
Scan(tr, k, best_neighbor_cost, best_neighbors) ==
    IF k > Len(tr)
    THEN [cost |-> best_neighbor_cost, neighbors |-> best_neighbors]
    ELSE LET cost == get_cost(tr[k])
         IN  IF (IF best_neighbor_cost.kind = "None" THEN TRUE
                 ELSE cost < best_neighbor_cost.val)
             THEN Scan(tr, k + 1, PyVal(cost), <<tr[k]>>)
             ELSE IF cost = best_neighbor_cost.val
                  THEN Scan(tr, k + 1, best_neighbor_cost, Append(best_neighbors, tr[k]))
                  ELSE Scan(tr, k + 1, best_neighbor_cost, best_neighbors)

\* lines 42-56: best_neighbor_cost and best_neighbors after the two loops
Best == Scan(Trials, 1, PyNone, <<>>)

\* line 40: the while condition
LoopCondition == IF maximum.kind = "None" THEN TRUE ELSE count < maximum.val

\* the convergence test with > in place of >=
Converged_strict(b) == b.cost.val > get_cost(hospitals)

\* line 58: the convergence test, defined when best_neighbor_cost is a number
Converged(b) == b.cost.val >= get_cost(hospitals)

\* where control goes when hill_climb returns normally: back into
\* random_restart's loop body (line 75) or to the caller
AfterReturn == IF driver = "random_restart" THEN "body" ELSE "done"

\* ----------------------------------------------------------------- Init
Init ==
    /\ height \in 1 .. MaxCells
    /\ width \in 1 .. MaxCells
    /\ height * width <= MaxCells
    /\ num_hospitals \in 1 .. MaxHospitals
    /\ houses = {}
    /\ hospitals = {}
    /\ pc = "setup"
    /\ driver = "none"
    /\ maximum = PyNone
    /\ count = 0
    /\ num_restarts = 0
    /\ i = 0
    /\ best_hospitals = PyNone
    /\ best_cost = PyNone
    /\ pool = {}
    /\ costs = <<>>
    /\ op = "__init__"
    /\ arg = <<height, width, num_hospitals>>
    /\ ret = PyNone

\* -------------------------------------------------------------- actions
\* Space.add_house(row, col), lines 15-17
add_house(row, col) ==
    /\ pc = "setup"
    /\ Cardinality(houses) < MaxHouses
    /\ houses' = houses \cup {<<row, col>>}
    /\ op' = "add_house"
    /\ arg' = <<row, col>>
    /\ ret' = PyNone
    /\ UNCHANGED <<height, width, num_hospitals, hospitals, pc, driver, maximum,
                   count, num_restarts, i, best_hospitals, best_cost, pool, costs>>

\* lines 32-34 when random.sample succeeds: S is the sample drawn
Sample(S) ==
    /\ S \subseteq available_spaces
    /\ Cardinality(S) = num_hospitals
    /\ pool' = available_spaces
    /\ hospitals' = S
    /\ count' = 0
    /\ pc' = "loop"

\* lines 32-34 when random.sample raises: the sample is larger than the
\* population
SampleFails ==
    /\ num_hospitals > Cardinality(available_spaces)
    /\ pool' = available_spaces
    /\ pc' = "done"
    /\ op' = "hill_climb"
    /\ ret' = Raise("ValueError")
    /\ UNCHANGED <<hospitals, count>>

\* a call s.hill_climb(maximum=m), up to the while loop
hill_climb(m, S) ==
    /\ pc = "setup"
    /\ driver' = "hill_climb"
    /\ maximum' = m
    /\ arg' = m
    /\ Sample(S)
    /\ op' = "hill_climb"
    /\ ret' = PyNone
    /\ UNCHANGED <<height, width, num_hospitals, houses, num_restarts, i,
                   best_hospitals, best_cost, costs>>

\* a call s.hill_climb(maximum=m) that fails at line 34
hill_climb_sample_error(m) ==
    /\ pc = "setup"
    /\ driver' = "hill_climb"
    /\ maximum' = m
    /\ arg' = m
    /\ SampleFails
    /\ UNCHANGED <<height, width, num_hospitals, houses, num_restarts, i,
                   best_hospitals, best_cost, costs>>

\* one iteration of the while loop that replaces the placement, lines 40-61
hill_climb_move ==
    /\ pc = "loop"
    /\ LoopCondition
    /\ Best.cost.kind = "value"
    /\ ~Converged(Best)
    /\ count' = count + 1
    /\ \E k \in 1 .. Len(Best.neighbors) : hospitals' = Best.neighbors[k]
    /\ UNCHANGED <<height, width, num_hospitals, houses, pc, driver, maximum,
                   num_restarts, i, best_hospitals, best_cost, pool, costs,
                   op, arg, ret>>

\* the iteration that finds no better neighbor, lines 40-59
hill_climb_converge ==
    /\ pc = "loop"
    /\ LoopCondition
    /\ Best.cost.kind = "value"
    /\ Converged(Best)
    /\ count' = count + 1
    /\ ret' = PyVal(hospitals)
    /\ op' = "hill_climb"
    /\ pc' = AfterReturn
    /\ UNCHANGED <<height, width, num_hospitals, houses, hospitals, driver,
                   maximum, num_restarts, i, best_hospitals, best_cost, pool,
                   costs, arg>>

\* the iteration in which no hospital has a neighbor: best_neighbor_cost is
\* still None at line 58 and None >= int raises TypeError
hill_climb_no_neighbor ==
    /\ pc = "loop"
    /\ LoopCondition
    /\ Best.cost.kind = "None"
    /\ count' = count + 1
    /\ ret' = Raise("TypeError")
    /\ op' = "hill_climb"
    /\ pc' = "done"
    /\ UNCHANGED <<height, width, num_hospitals, houses, hospitals, driver,
                   maximum, num_restarts, i, best_hospitals, best_cost, pool,
                   costs, arg>>

\* the while condition is false: control falls off the end of hill_climb,
\* line 66, and the call evaluates to None
hill_climb_cap ==
    /\ pc = "loop"
    /\ ~LoopCondition
    /\ ret' = PyNone
    /\ op' = "hill_climb"
    /\ pc' = AfterReturn
    /\ UNCHANGED <<height, width, num_hospitals, houses, hospitals, driver,
                   maximum, count, num_restarts, i, best_hospitals, best_cost,
                   pool, costs, arg>>

\* ------------------------------------------------------- random_restart
\* a call s.random_restart(n), lines 68-73
random_restart(n) ==
    /\ pc = "setup"
    /\ driver' = "random_restart"
    /\ num_restarts' = n
    /\ arg' = n
    /\ i' = 0
    /\ best_hospitals' = PyNone
    /\ best_cost' = PyNone
    /\ costs' = <<>>
    /\ pc' = "for"
    /\ op' = "random_restart"
    /\ ret' = PyNone
    /\ UNCHANGED <<height, width, num_hospitals, houses, hospitals, maximum,
                   count, pool>>

\* lines 73-74: the next run starts, self.hill_climb() with maximum=None
random_restart_run(S) ==
    /\ pc = "for"
    /\ i < num_restarts
    /\ maximum' = PyNone
    /\ Sample(S)
    /\ UNCHANGED <<height, width, num_hospitals, houses, driver, num_restarts,
                   i, best_hospitals, best_cost, costs, op, arg, ret>>

\* lines 73-74 when the run's random.sample raises: the exception leaves
\* random_restart
random_restart_sample_error ==
    /\ pc = "for"
    /\ i < num_restarts
    /\ maximum' = PyNone
    /\ SampleFails
    /\ UNCHANGED <<height, width, num_hospitals, houses, driver, num_restarts,
                   i, best_hospitals, best_cost, costs, arg>>

\* the test with the comparison reversed
Improves_reversed(cost) == IF best_cost.kind = "None" THEN TRUE ELSE cost > best_cost.val

\* the test with <= in place of <: a tie replaces the best
Improves_on_tie(cost) == IF best_cost.kind = "None" THEN TRUE ELSE cost <= best_cost.val

\* line 76: the test that makes a run's result the new best
Improves(cost) == IF best_cost.kind = "None" THEN TRUE ELSE cost < best_cost.val

\* lines 75-78: the run's result (ret, the value hill_climb returned) is
\* compared with the best so far
random_restart_record ==
    /\ pc = "body"
    /\ ret.kind = "value"
    /\ LET cost == get_cost(ret.val)
       IN  /\ costs' = Append(costs, cost)
           /\ IF Improves(cost)
              THEN /\ best_cost' = PyVal(cost)
                   /\ best_hospitals' = ret
              ELSE UNCHANGED <<best_cost, best_hospitals>>
    /\ i' = i + 1
    /\ pc' = "for"
    /\ UNCHANGED <<height, width, num_hospitals, houses, hospitals, driver,
                   maximum, count, num_restarts, pool, op, arg, ret>>

\* line 88: the for loop is exhausted
random_restart_return ==
    /\ pc = "for"
    /\ i >= num_restarts
    /\ ret' = best_hospitals
    /\ op' = "random_restart"
    /\ pc' = "done"
    /\ UNCHANGED <<height, width, num_hospitals, houses, hospitals, driver,
                   maximum, count, num_restarts, i, best_hospitals, best_cost,
                   pool, costs, arg>>

\* ----------------------------------------------------------------- Next
\* the values of hill_climb's maximum argument
Caps == {PyNone} \cup {PyVal(m) : m \in 0 .. MaxCap}

\* the placements random.sample can draw for the current configuration
Samples == {S \in SUBSET GridCells : Cardinality(S) = num_hospitals}

Next ==
    \/ \E cell \in HouseCells : add_house(cell[1], cell[2])
    \/ \E m \in Caps, S \in Samples : hill_climb(m, S)
    \/ \E m \in Caps : hill_climb_sample_error(m)
    \/ hill_climb_move
    \/ hill_climb_converge
    \/ hill_climb_no_neighbor
    \/ hill_climb_cap
    \/ \E n \in 0 .. MaxRestarts : random_restart(n)
    \/ \E S \in Samples : random_restart_run(S)
    \/ random_restart_sample_error
    \/ random_restart_record
    \/ random_restart_return

Spec == Init /\ [][Next]_vars

\* ---------------------------------------------- the methods called alone
\* the house sets add_house can have built
HouseSets == {H \in SUBSET HouseCells : Cardinality(H) <= MaxHouses}

\* the placements a caller can hand to get_cost
Placements == {P \in SUBSET GridCells : Cardinality(P) <= MaxHospitals}

\* the calls explored, as <<method, argument>>
Queries ==
    ({"get_cost"} \X Placements)
        \cup ({"get_neighbors"} \X HouseCells)
        \cup {<<"available_spaces", <<>> >>}

\* a Space whose houses have been added and whose placement is either still
\* empty or one that hill_climb's line 34 has drawn, and a call about to be
\* made on it
InitQuery ==
    /\ height \in 1 .. MaxCells
    /\ width \in 1 .. MaxCells
    /\ height * width <= MaxCells
    /\ num_hospitals \in 1 .. MaxHospitals
    /\ houses \in HouseSets
    /\ hospitals \in {{}} \cup {S \in Samples : S \cap houses = {}}
    /\ pc = "call"
    /\ driver = "none"
    /\ maximum = PyNone
    /\ count = 0
    /\ num_restarts = 0
    /\ i = 0
    /\ best_hospitals = PyNone
    /\ best_cost = PyNone
    /\ pool = {}
    /\ costs = <<>>
    /\ \E q \in Queries : op = q[1] /\ arg = q[2]
    /\ ret = PyNone

\* the call s.get_cost(arg), lines 90-95
get_cost_query ==
    /\ pc = "call"
    /\ op = "get_cost"
    /\ ret' = get_cost_call(arg)
    /\ pc' = "done"
    /\ UNCHANGED <<height, width, num_hospitals, houses, hospitals, driver,
                   maximum, count, num_restarts, i, best_hospitals, best_cost,
                   pool, costs, op, arg>>

\* the call s.get_neighbors(arg[1], arg[2]), lines 97-106
get_neighbors_query ==
    /\ pc = "call"
    /\ op = "get_neighbors"
    /\ ret' = PyVal(get_neighbors(arg[1], arg[2]))
    /\ pc' = "done"
    /\ UNCHANGED <<height, width, num_hospitals, houses, hospitals, driver,
                   maximum, count, num_restarts, i, best_hospitals, best_cost,
                   pool, costs, op, arg>>

\* available_spaces subtracting in place from self.hospitals, which it
\* leaves empty
available_spaces_query_in_place ==
    /\ pc = "call"
    /\ op = "available_spaces"
    /\ ret' = PyVal(available_spaces)
    /\ hospitals' = {}
    /\ pc' = "done"
    /\ UNCHANGED <<height, width, num_hospitals, houses, driver,
                   maximum, count, num_restarts, i, best_hospitals, best_cost,
                   pool, costs, op, arg>>

\* the call s.available_spaces(), lines 19-28
available_spaces_query ==
    /\ pc = "call"
    /\ op = "available_spaces"
    /\ ret' = PyVal(available_spaces)
    /\ pc' = "done"
    /\ UNCHANGED <<height, width, num_hospitals, houses, hospitals, driver,
                   maximum, count, num_restarts, i, best_hospitals, best_cost,
                   pool, costs, op, arg>>

NextQuery ==
    \/ get_cost_query
    \/ get_neighbors_query
    \/ available_spaces_query

SpecQuery == InitQuery /\ [][NextQuery]_vars

\* ------------------------------- the methods called between the other calls
\* the calls hill_climb and output_image make on the current state (lines
\* 34, 46, 58 and 154), as <<method, argument>>
StateQueries ==
    {<<"get_cost", hospitals>>, <<"available_spaces", <<>> >>}
        \cup ({"get_neighbors"} \X hospitals)

\* the caller is about to make the call q, before or after a hill_climb or
\* random_restart call
query(q) ==
    /\ pc \in {"setup", "done"}
    /\ pc' = "call"
    /\ op' = q[1]
    /\ arg' = q[2]
    /\ ret' = PyNone
    /\ UNCHANGED <<height, width, num_hospitals, houses, hospitals, driver,
                   maximum, count, num_restarts, i, best_hospitals, best_cost,
                   pool, costs>>

NextAll ==
    \/ Next
    \/ \E q \in StateQueries : query(q)
    \/ NextQuery

\* every method of Space: Spec with the three query methods called as well
SpecAll == Init /\ [][NextAll]_vars

\* =============================================================== claims
\* the grid cells not occupied by houses
NonHouseCells == GridCells \ houses

\* the initial placement of the current call has been drawn at line 34
Drawn ==
    \/ pc = "loop"
    \/ pc = "body"
    \/ driver = "random_restart" /\ i > 0
    \/ driver = "hill_climb" /\ pc = "done" /\ ret.kind # "ValueError"

\* C1: every replacement of the current placement inside hill_climb's loop
\* strictly lowers the cost; the cost never rises and never stays equal
\* across a replacement.
C1_ReplacementLowersCost ==
    [][(pc = "loop" /\ hospitals' # hospitals)
          => get_cost(hospitals') < get_cost(hospitals)]_vars

\* a run that has replaced its placement twice
C1_Witness == pc = "loop" /\ count >= 2 /\ hospitals # {}

\* C2: without an iteration cap the loop counter of hill_climb never exceeds
\* |non-house cells| * num_hospitals; every iteration adds one to it, and an
\* iteration that does not end the run has a placement to continue with, so
\* every run ends within that many iterations.
C2_IterationBound ==
    (driver # "none" /\ maximum.kind = "None")
        => /\ count <= Cardinality(NonHouseCells) * num_hospitals
           /\ (pc = "loop" /\ Best.cost.kind = "value" /\ ~Converged(Best))
                 => Len(Best.neighbors) >= 1

\* an uncapped run that ended using the whole bound of at least 3 iterations
C2_Witness ==
    /\ driver = "hill_climb" /\ maximum.kind = "None" /\ pc = "done"
    /\ count = Cardinality(NonHouseCells) * num_hospitals
    /\ count >= 3

\* C3: once the initial placement is drawn, the current placement has exactly
\* num_hospitals cells, all inside the grid, none of them a house.
C3_PlacementValid ==
    Drawn => /\ Cardinality(hospitals) = num_hospitals
             /\ hospitals \subseteq GridCells
             /\ hospitals \cap houses = {}

\* a run in a grid with houses inside it that has moved a hospital
C3_Witness ==
    /\ pc = "loop" /\ count >= 1 /\ num_hospitals = 2
    /\ houses \cap GridCells # {}

\* C4: when the iteration cap stops the loop, hill_climb returns the current
\* placement.
C4_CapReturnsPlacement ==
    [][(pc = "loop" /\ ~LoopCondition) => ret' = PyVal(hospitals')]_vars

\* C5: in random_restart the recorded best cost is the minimum of the costs
\* of the runs' results so far, it is the cost of the recorded best
\* placement, and that placement is what random_restart returns.
C5_BestIsMinimum ==
    (driver = "random_restart" /\ costs # <<>>)
        => /\ best_cost = PyVal(min({costs[k] : k \in 1 .. Len(costs)}))
           /\ best_hospitals.kind = "value"
           /\ get_cost(best_hospitals.val) = best_cost.val
           /\ (pc = "done" /\ ret.kind \in {"value", "None"})
                 => ret = best_hospitals

\* random_restart has returned after two runs, the second better than the
\* first
C5_Witness ==
    /\ driver = "random_restart" /\ pc = "done" /\ ret.kind = "value"
    /\ Len(costs) = 2 /\ costs[2] < costs[1]

\* C6: every run's initial placement is sampled from exactly the grid cells
\* not occupied by houses, and the sampling does not fail when num_hospitals
\* is at most the number of those cells.
C6_PoolIsNonHouseCells ==
    /\ pc = "loop" => pool = NonHouseCells
    /\ (pc = "done" /\ ret.kind = "ValueError")
          => num_hospitals > Cardinality(NonHouseCells)

\* C7: no cell returned by get_neighbors is a house, a hospital of the
\* current placement, or outside the grid.
C7_NeighborsValid ==
    (op = "get_neighbors" /\ pc = "done")
        => \A k \in 1 .. Len(ret.val) :
              /\ ret.val[k] \notin houses
              /\ ret.val[k] \notin hospitals
              /\ ret.val[k] \in GridCells

\* get_neighbors of a grid cell next to a house and next to a hospital, with
\* a cell returned
C7_Witness ==
    /\ op = "get_neighbors" /\ pc = "done" /\ Len(ret.val) >= 1
    /\ <<arg[1], arg[2]>> \in GridCells
    /\ \E h \in houses, p \in hospitals :
          /\ abs(h[1] - arg[1]) + abs(h[2] - arg[2]) = 1
          /\ abs(p[1] - arg[1]) + abs(p[2] - arg[2]) = 1

\* the configuration of the example: a 1x5 grid, houses at (0,0) and (0,4),
\* one hospital
Example1x5 ==
    /\ height = 1 /\ width = 5 /\ num_hospitals = 1
    /\ houses = {<<0, 0>>, <<0, 4>>}

\* C8: in the 1x5 example an uncapped hill_climb ends in its first iteration
\* and returns a placement of cost 4.
C8_ExampleCost4 ==
    (Example1x5 /\ driver = "hill_climb" /\ maximum.kind = "None")
        => /\ count <= 1
           /\ pc \in {"loop", "done"}
           /\ pc = "done" => (ret.kind = "value" /\ get_cost(ret.val) = 4)

\* the example run has returned
C8_Witness ==
    /\ Example1x5 /\ driver = "hill_climb" /\ maximum.kind = "None"
    /\ pc = "done" /\ ret.kind = "value" /\ ret.val = {<<0, 1>>}

\* the distance from a house to its nearest cell of P, stated without min
Nearest(h, P) ==
    CHOOSE d \in 0 .. height + width :
        /\ \E p \in P : abs(h[1] - p[1]) + abs(h[2] - p[2]) = d
        /\ \A p \in P : abs(h[1] - p[1]) + abs(h[2] - p[2]) >= d

RECURSIVE SumOf(_, _)
\* the sum of f over the set S
SumOf(f, S) ==
    IF S = {} THEN 0
    ELSE LET x == CHOOSE y \in S : TRUE IN f[x] + SumOf(f, S \ {x})

\* C9: on a non-empty placement get_cost is the sum over the houses of the
\* distance to the nearest hospital, is not negative, and is 0 exactly when
\* every house is a cell of the placement.
C9_CostIsSumOfNearest ==
    (op = "get_cost" /\ pc = "done" /\ arg # {})
        => /\ ret.kind = "value"
           /\ ret.val = SumOf([h \in houses |-> Nearest(h, arg)], houses)
           /\ ret.val >= 0
           /\ ret.val = 0 <=> houses \subseteq arg

\* get_cost of a two-hospital placement with two houses, one of them on a
\* hospital
C9_Witness ==
    /\ op = "get_cost" /\ pc = "done"
    /\ Cardinality(arg) = 2 /\ Cardinality(houses) = 2
    /\ ret.kind = "value" /\ ret.val > 0
    /\ houses \cap arg # {}

\* C10: add_house with a cell outside the grid is rejected, and every house
\* is inside the grid.
C10_HousesInBounds ==
    /\ op = "add_house" => (<<arg[1], arg[2]>> \in GridCells \/ ret.kind # "None")
    /\ houses \subseteq GridCells

\* C11: get_cost of an empty placement ends in an error, whatever the house
\* set; it never returns a number.
C11_EmptyPlacementRaises ==
    (op = "get_cost" /\ pc = "done" /\ arg = {})
        => ret.kind \notin {"value", "None"}

\* C12: in random_restart the recorded best placement and best cost change
\* only in the first run or in a run whose result costs strictly less than
\* the recorded best cost; a run that ties leaves both unchanged.
C12_BestChangesOnlyOnStrictImprovement ==
    [][(driver = "random_restart"
            /\ <<best_hospitals, best_cost>>' # <<best_hospitals, best_cost>>)
          => /\ pc = "body"
             /\ IF best_cost.kind = "None" THEN costs = <<>>
                ELSE get_cost(ret.val) < best_cost.val]_vars

\* a second run ended on another placement of the same cost as the first,
\* and the first is still the recorded best
C12_Witness ==
    /\ driver = "random_restart" /\ pc = "for"
    /\ Len(costs) = 2 /\ costs[1] = costs[2]
    /\ ret.kind = "value" /\ ret # best_hospitals

\* the trial placements of an iteration: one hospital moved to an adjacent
\* grid cell that is neither a house nor a hospital
TrialSet ==
    { (hospitals \ {h}) \cup {n} :
        <<h, n>> \in { x \in hospitals \X ((GridCells \ houses) \ hospitals) :
                         abs(x[1][1] - x[2][1]) + abs(x[1][2] - x[2][2]) = 1 } }

\* no trial placement costs strictly less than the current placement
NoImprovingTrial == \A T \in TrialSet : get_cost(T) >= get_cost(hospitals)

\* C13: an iteration in which no trial placement costs strictly less than
\* the current placement, also one without any trial placement, returns the
\* current placement and leaves it unchanged.
C13_NoImprovementReturnsPlacement ==
    [][(pc = "loop" /\ LoopCondition /\ NoImprovingTrial)
          => /\ hospitals' = hospitals
             /\ pc' # "loop"
             /\ ret' = PyVal(hospitals)]_vars

\* C14: every placement an uncapped hill_climb returns is a local optimum:
\* moving any one hospital to an adjacent free cell does not lower the cost.
C14_ReturnedIsLocalOptimum ==
    (op = "hill_climb" /\ maximum.kind = "None" /\ pc \in {"done", "body"}
        /\ ret.kind = "value")
        => /\ ret.val = hospitals
           /\ \A T \in TrialSet : get_cost(T) >= get_cost(ret.val)

\* an uncapped run returned, after a move, a placement that has trial
\* placements, one of them of the same cost
C14_Witness ==
    /\ op = "hill_climb" /\ maximum.kind = "None" /\ pc = "done"
    /\ ret.kind = "value" /\ count >= 2
    /\ \E T \in TrialSet : get_cost(T) = get_cost(ret.val)

\* the trial placements of minimum cost
MinTrials == { T \in TrialSet : \A U \in TrialSet : get_cost(T) <= get_cost(U) }

\* the iteration about to run will replace the placement
Improving == pc = "loop" /\ LoopCondition /\ ~NoImprovingTrial

\* C15: in an iteration that replaces the placement, the candidate list
\* that random.choice draws from is exactly the set of minimum-cost trial
\* placements, each listed once, and the new placement is one of them.
C15_CandidatesAreMinTrials ==
    /\ [](Improving
            => /\ { Best.neighbors[k] : k \in 1 .. Len(Best.neighbors) } = MinTrials
               /\ Len(Best.neighbors) = Cardinality(MinTrials)
               /\ Best.cost = PyVal(get_cost(CHOOSE T \in MinTrials : TRUE)))
    /\ [][Improving => hospitals' \in MinTrials]_vars

\* an iteration about to choose among two or more tied candidates, while
\* other trial placements cost more
C15_Witness ==
    /\ Improving /\ Cardinality(MinTrials) >= 2
    /\ TrialSet # MinTrials

\* C16: every replacement inside a run moves exactly one hospital to a cell
\* at Manhattan distance 1 and leaves the other hospitals where they are.
C16_OneHospitalOneStep ==
    [][(pc = "loop" /\ hospitals' # hospitals)
          => \E h \in hospitals, n \in hospitals' :
                /\ n \notin hospitals
                /\ hospitals' = (hospitals \ {h}) \cup {n}
                /\ abs(h[1] - n[1]) + abs(h[2] - n[2]) = 1]_vars

\* a run with two hospitals on a grid of two rows that has moved a hospital
C16_Witness ==
    /\ pc = "loop" /\ count >= 1 /\ num_hospitals = 2 /\ height >= 2 /\ width >= 2

\* C17: get_neighbors returns exactly the cells at Manhattan distance 1 from
\* its argument that are inside the grid, not houses and not hospitals, each
\* once, so at most 4 cells.
C17_NeighborsExact ==
    (op = "get_neighbors" /\ pc = "done")
        => /\ ret.kind = "value"
           /\ { ret.val[k] : k \in 1 .. Len(ret.val) }
                 = { c \in (GridCells \ houses) \ hospitals :
                       abs(c[1] - arg[1]) + abs(c[2] - arg[2]) = 1 }
           /\ \A j, k \in 1 .. Len(ret.val) : ret.val[j] = ret.val[k] => j = k
           /\ Len(ret.val) <= 4

\* get_neighbors returned two or more cells while leaving out an adjacent
\* house or hospital
C17_Witness ==
    /\ op = "get_neighbors" /\ pc = "done" /\ Len(ret.val) >= 2
    /\ \E c \in houses \cup hospitals :
          abs(c[1] - arg[1]) + abs(c[2] - arg[2]) = 1

\* a step of hill_climb, random_restart, get_cost, get_neighbors or
\* available_spaces: any step but a call of add_house and the caller's
\* preparation of a query
MethodStep == pc' # "call" /\ op' # "add_house"

\* C18: only add_house changes the house set: no step of hill_climb,
\* random_restart, get_cost, get_neighbors or available_spaces changes it,
\* and the last three do not change the current placement either.
C18_HousesAndPlacementFramed ==
    [][/\ houses' # houses
            => (pc = "setup" /\ op' = "add_house"
                   /\ houses' = houses \cup {<<arg'[1], arg'[2]>>})
       /\ MethodStep => houses' = houses
       /\ pc = "call" => (houses' = houses /\ hospitals' = hospitals)]_vars

\* a query method has returned on a Space with houses whose placement a
\* random_restart call left behind
C18_Witness ==
    /\ pc = "done" /\ op \in {"get_cost", "get_neighbors", "available_spaces"}
    /\ driver = "random_restart" /\ i >= 1
    /\ houses # {} /\ hospitals # {}

\* C19 as first stated: when random_restart returns a placement, the current
\* placement of the Space is that placement.
C19_CurrentIsReturnedBest ==
    (driver = "random_restart" /\ pc = "done" /\ ret.kind = "value")
        => hospitals = ret.val

\* C19: when random_restart returns after one or more runs, the current
\* placement of the Space is the placement the last run returned; it costs
\* at least as much as the returned best placement, and it is the returned
\* placement when the last run costs strictly less than every earlier run.
C19_CurrentIsLastRun ==
    [][(pc = "for" /\ i >= num_restarts /\ num_restarts >= 1)
          => /\ ret.kind = "value" /\ ret'.kind = "value"
             /\ hospitals' = ret.val
             /\ get_cost(hospitals') = costs[Len(costs)]
             /\ get_cost(hospitals') >= get_cost(ret'.val)
             /\ (\A k \in 1 .. Len(costs) - 1 : costs[Len(costs)] < costs[k])
                   => hospitals' = ret'.val]_vars

\* random_restart returned the first run's placement while the Space holds
\* the costlier placement of the second run
C19_Witness ==
    /\ driver = "random_restart" /\ pc = "done" /\ ret.kind = "value"
    /\ Len(costs) = 2 /\ costs[2] > costs[1]
    /\ hospitals # ret.val

====
